---- MODULE Spec2Model ----
(***************************************************************************)
(* Model of the certificate back end (src/backend/server.js): the          *)
(* in-memory certificateStore, the issuance handler POST /api/certificates *)
(* (which yields once, at its awaited QR step, and is answered from the    *)
(* PDF stream's 'end' event) and the verification handler                  *)
(* GET /api/verify/:id.                                                     *)
(*                                                                         *)
(* Strings are sequences of characters, so that trim() and template        *)
(* concatenation are computed, not assumed.  A Date is a record            *)
(* [year, month, day, ms] in the server's time zone; formatDate keeps the  *)
(* calendar part only.  The model follows two concurrent issuance requests *)
(* from arrival to response.                                               *)
(*                                                                         *)
(* The page script (src/frontend/app.js) is modelled beside it, under its  *)
(* own specification FrontSpec: the camera, capture, mirror and submit     *)
(* listeners and the callbacks they leave pending.                         *)
(***************************************************************************)
EXTENDS Naturals, Sequences, FiniteSets

VARIABLES certificateStore, pc, request, locals, resp, now, verifyResp

\* the page of src/frontend/app.js: its inputs, its two script variables,
\* the callbacks it is waiting for and the requests it has sent
VARIABLES fullName, validUntil, mirrorMode, videoMirrored, captureDisabled, mediaStream,
          capturedBlob, cameraPending, pendingBlobs, shots, photoPreview,
          statusText, sent, lastPost, inflight, reading, download

feVars == <<fullName, validUntil, mirrorMode, videoMirrored, captureDisabled, mediaStream,
            capturedBlob, cameraPending, pendingBlobs, shots, photoPreview,
            statusText, sent, lastPost, inflight, reading, download>>

vars == <<certificateStore, pc, request, locals, resp, now, verifyResp, feVars>>

----------------------------------------------------------------------------
(* Bounds of the model. *)

\* milliseconds the clock counts within the day before the day is over
MaxMs == 0
\* getUserMedia calls that may be pending together
MaxCameraPending == 1
\* capture clicks that take a picture
MaxShots == 2
\* POST requests the page sends
MaxPosts == 1

----------------------------------------------------------------------------
(* Input domains. *)

\* in-flight request slots (concurrently arriving POST requests)
Reqs == {"r1", "r2"}

\* a multipart field that the request does not carry (req.body.x === undefined)
Undefined == <<"undefined">>

\* a field whose value is truthy and not a string: the array multer builds
\* from a repeated field, or a number, true or an object of a JSON body
NonString == <<"non-string">>

\* characters without an escape in a string literal are named by code point
NBSP == "U+00A0"

\* values of req.body.name: absent, not a string, blank, plain, padded with
\* white space
NameValues == {Undefined, NonString, <<"\t", " ">>, <<"J">>,
               <<"\n", "J", " ", "D", NBSP>>}

\* values of req.body.certificateName: absent, not a string, blank, given
CertNameValues == {Undefined, NonString, <<"\r", " ">>, <<"A">>}

\* req.file: no upload, an image upload, an upload pdfkit cannot decode
NoFile == "none"
Files == {NoFile, "image", "garbage"}

\* req.get('host'): an ordinary host, and one too long for a QR code
LongHost == "host-over-qr-capacity"
Hosts == {"localhost:3000", LongHost}

\* req.protocol
Protocols == {"http"}

\* the values uuidv4() can return; the generator is random and the handler
\* never compares its result with the store, so any value may come out again
uuidv4 == {"uuid-a", "uuid-b"}

\* values of the full-name input: empty, blank, a name padded with white space
NameInputs == {<<>>, <<NBSP, "\t">>, <<"\t", "J", " ", " ", "D", " ">>}

\* mediaStream before getUserMedia has resolved; capturedBlob before a toBlob
\* callback has run, and after one that was handed null
NoStream == "undefined"
NoBlob == [none |-> TRUE]
NullBlob == [null |-> TRUE]
NoPost == [none |-> TRUE]

\* values of the valid-until input; a field left out of the FormData
ValidUntilInputs == {"", "2027-01-01"}
NoField == "absent"

\* bodies of an error answer that are not JSON: the start of the HTML page
\* Express answers with when multer fails, a single character, nothing
HtmlPage ==
    <<"<", "!", "D", "O", "C", "T", "Y", "P", "E", " ", "h", "t", "m", "l", ">",
      "\n", "<", "h", "t", "m", "l">>
TextBodies == {HtmlPage, <<"<">>, <<>>}

\* what the page's fetch can settle with.  A response: the PDF with its
\* X-Certificate-Id header, or an error status whose body is the JSON of the
\* handler, JSON without an error field, or text that is not JSON
FetchAnswers ==
    {[ok |-> TRUE, certId |-> "uuid-a"]}
        \cup {[ok |-> FALSE, error |-> e] :
                 e \in {"Certificate name is required.",
                        "Failed to generate certificate PDF.", ""}}
        \cup {[ok |-> FALSE, text |-> t] : t \in TextBodies}

\* error.message of a fetch that rejects (the network is down)
FetchErrors == {"Failed to fetch"}

\* error.message of the TypeError response.json() and response.blob() reject
\* with when the connection is lost while the body arrives
BodyLostError == "network error"

\* error.message of the SyntaxError response.json() rejects with for a body
\* whose first character cannot start a JSON text, as V8 words it: the body
\* is quoted whole when it has at most 20 characters, else its first 10
JsonSyntaxError(text) ==
    IF text = <<>> THEN <<"Unexpected end of JSON input">>
    ELSE <<"Unexpected token '", Head(text), "', \"">>
             \o (IF Len(text) > 20 THEN SubSeq(text, 1, 10) \o <<"\"...">>
                 ELSE text \o <<"\"">>)
             \o <<" is not valid JSON">>

\* no file has been saved yet
NoDownload == <<"none">>

\* identifiers a client may ask to verify: the issued ones and one never issued
NeverIssued == "uuid-never"
VerifyIds == uuidv4 \cup {NeverIssued}

\* the characters of each identifier string
IdText(id) ==
    CASE id = "uuid-a"     -> <<"u", "u", "i", "d", "-", "a">>
      [] id = "uuid-b"     -> <<"u", "u", "i", "d", "-", "b">>
      [] id = "uuid-never" -> <<"u", "u", "i", "d", "-", "n", "e", "v", "e", "r">>

\* b is a with exactly one character replaced
OneCharApart(a, b) ==
    /\ Len(IdText(a)) = Len(IdText(b))
    /\ Cardinality({i \in 1..Len(IdText(a)) : IdText(a)[i] # IdText(b)[i]}) = 1

----------------------------------------------------------------------------
(* Constants of server.js. *)

TRAINING_PARTNER == "LearningCurve Institute"
CERTIFICATION_PREFIX == <<"LearningCurve", " ", "Certified">>
ExpiryYears == 2

----------------------------------------------------------------------------
(* Pure helpers. *)

\* the characters String.prototype.trim strips and \s matches: WhiteSpace
\* (TAB, VT, FF, SP, NBSP, ZWNBSP and the Unicode space separators) and
\* LineTerminator (LF, CR, LS, PS)
WhiteSpace ==
    {"\t", "U+000B", "\f", " ", NBSP, "U+FEFF",
     "U+1680", "U+2000", "U+2001", "U+2002", "U+2003", "U+2004", "U+2005",
     "U+2006", "U+2007", "U+2008", "U+2009", "U+200A", "U+202F", "U+205F",
     "U+3000",
     "\n", "\r", "U+2028", "U+2029"}

IsSpace(c) == c \in WhiteSpace

RECURSIVE TrimStart(_)
TrimStart(s) ==
    IF s = <<>> THEN <<>>
    ELSE IF IsSpace(Head(s)) THEN TrimStart(Tail(s)) ELSE s

RECURSIVE TrimEnd(_)
TrimEnd(s) ==
    IF s = <<>> THEN <<>>
    ELSE IF IsSpace(s[Len(s)]) THEN TrimEnd(SubSeq(s, 1, Len(s) - 1)) ELSE s

\* String.prototype.trim
Trim(s) == TrimEnd(TrimStart(s))

\* (req.body.x || ''): undefined and '' both give '', any other value itself
OrEmpty(v) == IF v = Undefined \/ v = <<>> THEN <<>> ELSE v

\* whether v.trim is a function: it is for a string and for nothing else a
\* request body can hold
HasTrim(v) == v # NonString

\* s.replace(/\s+/g, '_'): every run of white space becomes one underscore
RECURSIVE ReplaceSpaceRuns(_)
ReplaceSpaceRuns(s) ==
    IF s = <<>> THEN <<>>
    ELSE IF IsSpace(Head(s)) THEN <<"_">> \o ReplaceSpaceRuns(TrimStart(Tail(s)))
    ELSE <<Head(s)>> \o ReplaceSpaceRuns(Tail(s))

\* `${fullNameInput.value.trim().replace(/\s+/g, '_')}_credential.pdf`
DownloadName(value) == ReplaceSpaceRuns(Trim(value)) \o <<"_credential.pdf">>

\* `${CERTIFICATION_PREFIX} ${requestedCertificateName}`.trim()
CertificateNameOf(requested) == Trim(CERTIFICATION_PREFIX \o <<" ">> \o requested)

MonthNames ==
    <<"January", "February", "March", "April", "May", "June", "July",
      "August", "September", "October", "November", "December">>

\* formatDate: "Month DD, YYYY", the calendar part of a Date
formatDate(date) ==
    [month |-> MonthNames[date.month], day |-> date.day, year |-> date.year]

IsLeapYear(y) == (y % 4 = 0 /\ y % 100 # 0) \/ y % 400 = 0

DaysInMonth(y, m) ==
    IF m = 2 THEN (IF IsLeapYear(y) THEN 29 ELSE 28)
    ELSE IF m \in {4, 6, 9, 11} THEN 30 ELSE 31

\* Date.prototype.setFullYear: the same month and day of year y, and a day
\* the month does not have in year y carried into the next month
setFullYear(date, y) ==
    IF date.day > DaysInMonth(y, date.month)
    THEN [date EXCEPT !.year = y, !.month = @ + 1,
                      !.day = @ - DaysInMonth(y, date.month)]
    ELSE [date EXCEPT !.year = y]

\* expiryDateObject.setFullYear(expiryDateObject.getFullYear() + 2)
AddExpiry(date) == setFullYear(date, date.year + ExpiryYears)

\* the first instant of the day after date
NextDay(date) ==
    IF date.day < DaysInMonth(date.year, date.month)
    THEN [date EXCEPT !.day = @ + 1, !.ms = 0]
    ELSE IF date.month < 12
    THEN [date EXCEPT !.month = @ + 1, !.day = 1, !.ms = 0]
    ELSE [date EXCEPT !.year = @ + 1, !.month = 1, !.day = 1, !.ms = 0]

\* the instant the server is started at: the first of a 29 February
ServerStart == [year |-> 2028, month |-> 2, day |-> 29, ms |-> 0]

\* Date.prototype.toISOString: the full instant
toISOString(date) == date

\* a verification link that leaves out the /api prefix of the route
VerificationUrlNoApi(protocol, host, id) == <<protocol, "://", host, "/verify/", id>>

\* `${req.protocol}://${req.get('host')}/api/verify/${certificateId}`
VerificationUrlOf(protocol, host, id) == <<protocol, "://", host, "/api/verify/", id>>

\* QRCode.toDataURL rejects when the text exceeds the capacity of a QR code
QrRejects(url) == url[3] = LongHost

\* drawCertificateLayout throws when doc.image cannot decode the upload
DrawThrows(file) == file = "garbage"

----------------------------------------------------------------------------
(* certificateStore: a Map, modelled as a function on its key set. *)

StoreHas(store, id) == id \in DOMAIN store

\* a store that keeps the first record under a key (put-if-absent)
StoreSetIfAbsent(store, id, record) ==
    [k \in (DOMAIN store) \cup {id} |-> IF k \in DOMAIN store THEN store[k] ELSE record]

\* Map.prototype.set: inserts, or replaces the value under an existing key
StoreSet(store, id, record) ==
    [k \in (DOMAIN store) \cup {id} |-> IF k = id THEN record ELSE store[k]]

\* the metadata object of lines 284-293
RecordOf(l, createdAt) ==
    [certificateId   |-> l.certificateId,
     learnerName     |-> l.learnerName,
     certificateName |-> l.certificateName,
     issueDate       |-> l.issueDate,
     expiryDate      |-> l.expiryDate,
     trainingPartner |-> TRAINING_PARTNER,
     createdAt       |-> toISOString(createdAt),
     verificationUrl |-> l.verificationUrl]

----------------------------------------------------------------------------
(* Responses. *)

NoRequest == [none |-> TRUE]
NoLocals == [none |-> TRUE]
NoVerify == [none |-> TRUE]

BadRequest(msg) == [status |-> 400, body |-> [error |-> msg]]
ServerError == [status |-> 500, body |-> [error |-> "Failed to generate certificate PDF."]]
PdfResponse(id) == [status |-> 200, contentType |-> "application/pdf", xCertificateId |-> id]

\* a verification handler that forgets res.status(404)
VerifyHandlerNoStatus(store, id) ==
    IF ~(id \in DOMAIN store)
    THEN [status |-> 200, valid |-> FALSE, message |-> "Certificate not found."]
    ELSE [status |-> 200, valid |-> TRUE, message |-> "Certificate is valid.",
          certificate |-> store[id]]

\* a verification handler that also accepts a near match of a stored key
VerifyHandlerLoose(store, id) ==
    IF \E k \in DOMAIN store : k = id \/ OneCharApart(k, id)
    THEN [status |-> 200, valid |-> TRUE, message |-> "Certificate is valid.",
          certificate |-> store[CHOOSE k \in DOMAIN store : k = id \/ OneCharApart(k, id)]]
    ELSE [status |-> 404, valid |-> FALSE, message |-> "Certificate not found."]

\* GET /api/verify/:id, the response as a function of the store
VerifyHandler(store, id) ==
    IF ~StoreHas(store, id)
    THEN [status |-> 404, valid |-> FALSE, message |-> "Certificate not found."]
    ELSE [status |-> 200, valid |-> TRUE, message |-> "Certificate is valid.",
          certificate |-> store[id]]

----------------------------------------------------------------------------
(* Initial state: the server has just started. *)

ServerStarted ==
    /\ certificateStore = <<>>
    /\ pc = [r \in Reqs |-> "idle"]
    /\ request = [r \in Reqs |-> NoRequest]
    /\ locals = [r \in Reqs |-> NoLocals]
    /\ resp = [r \in Reqs |-> <<>>]
    /\ now = ServerStart
    /\ verifyResp = NoVerify

\* app.js lines 1-13 have run on a freshly loaded page; whether the mirror
\* box is ticked and the capture button disabled is set by the page's markup
PageLoaded(mirror, disabled) ==
    /\ fullName = <<>>
    /\ validUntil = ""
    /\ mirrorMode = mirror
    /\ videoMirrored = FALSE
    /\ captureDisabled = disabled
    /\ mediaStream = NoStream
    /\ capturedBlob = NoBlob
    /\ cameraPending = 0
    /\ pendingBlobs = <<>>
    /\ shots = 0
    /\ photoPreview = NoBlob
    /\ statusText = <<>>
    /\ sent = 0
    /\ lastPost = NoPost
    /\ inflight = 0
    /\ reading = [a \in FetchAnswers |-> 0]
    /\ download = NoDownload

Init == ServerStarted /\ PageLoaded(FALSE, TRUE)

\* res.status(..).json(..) / res.send(..): one more response on the wire
Send(r, response) == resp' = [resp EXCEPT ![r] = Append(@, response)]

\* POST /api/certificates, lines 257-281: from the start of the handler to
\* the await of QRCode.toDataURL, and the catch of lines 322-325 for what the
\* first lines throw
Receive(r, name, certName, file, protocol, host) ==
    /\ pc[r] = "idle"
    /\ request' = [request EXCEPT ![r] =
           [name |-> name, certificateName |-> certName, file |-> file,
            protocol |-> protocol, host |-> host]]
    /\ LET learnerName == Trim(OrEmpty(name))
           requestedCertificateName == Trim(OrEmpty(certName))
           certificateName == CertificateNameOf(requestedCertificateName)
       IN  IF ~HasTrim(OrEmpty(name)) \/ ~HasTrim(OrEmpty(certName))
           THEN \* TypeError at line 257 or 258, caught at line 322
                /\ Send(r, ServerError)
                /\ pc' = [pc EXCEPT ![r] = "done"]
                /\ UNCHANGED locals
           ELSE IF learnerName = <<>>
           THEN /\ Send(r, BadRequest("Learner name is required."))
                /\ pc' = [pc EXCEPT ![r] = "done"]
                /\ UNCHANGED locals
           ELSE IF requestedCertificateName = <<>>
           THEN /\ Send(r, BadRequest("Certificate name is required."))
                /\ pc' = [pc EXCEPT ![r] = "done"]
                /\ UNCHANGED locals
           ELSE IF file = NoFile
           THEN /\ Send(r, BadRequest("Exam image is required."))
                /\ pc' = [pc EXCEPT ![r] = "done"]
                /\ UNCHANGED locals
           ELSE \E certificateId \in uuidv4 :
                /\ locals' = [locals EXCEPT ![r] =
                       [certificateId   |-> certificateId,
                        learnerName     |-> learnerName,
                        certificateName |-> certificateName,
                        issueDate       |-> formatDate(now),
                        expiryDate      |-> formatDate(AddExpiry(now)),
                        verificationUrl |-> VerificationUrlOf(protocol, host, certificateId)]]
                /\ pc' = [pc EXCEPT ![r] = "awaitQR"]
                /\ UNCHANGED resp
    /\ UNCHANGED <<certificateStore, now, verifyResp, feVars>>

\* a continuation that stores the record only once rendering has succeeded
ResumeStoreAfterRender(r) ==
    /\ pc[r] = "awaitQR"
    /\ IF QrRejects(locals[r].verificationUrl) \/ DrawThrows(request[r].file)
       THEN /\ Send(r, ServerError)
            /\ pc' = [pc EXCEPT ![r] = "done"]
            /\ UNCHANGED certificateStore
       ELSE /\ certificateStore' =
                   StoreSet(certificateStore, locals[r].certificateId, RecordOf(locals[r], now))
            /\ pc' = [pc EXCEPT ![r] = "awaitEnd"]
            /\ UNCHANGED resp
    /\ UNCHANGED <<request, locals, now, verifyResp, feVars>>

\* a continuation whose learner name lives in a variable shared by all requests
ResumeSharedLocals(r) ==
    /\ pc[r] = "awaitQR"
    /\ IF QrRejects(locals[r].verificationUrl)
       THEN /\ Send(r, ServerError)
            /\ pc' = [pc EXCEPT ![r] = "done"]
            /\ UNCHANGED certificateStore
       ELSE /\ \E q \in {x \in Reqs : locals[x] # NoLocals} :
                   certificateStore' =
                       StoreSet(certificateStore, locals[r].certificateId,
                                [RecordOf(locals[r], now) EXCEPT
                                     !.learnerName = locals[q].learnerName])
            /\ IF DrawThrows(request[r].file)
               THEN /\ Send(r, ServerError)
                    /\ pc' = [pc EXCEPT ![r] = "done"]
               ELSE /\ pc' = [pc EXCEPT ![r] = "awaitEnd"]
                    /\ UNCHANGED resp
    /\ UNCHANGED <<request, locals, now, verifyResp, feVars>>

\* a continuation that renders and answers without storing the record
ResumeNoInsert(r) ==
    /\ pc[r] = "awaitQR"
    /\ IF QrRejects(locals[r].verificationUrl) \/ DrawThrows(request[r].file)
       THEN /\ Send(r, ServerError)
            /\ pc' = [pc EXCEPT ![r] = "done"]
       ELSE /\ pc' = [pc EXCEPT ![r] = "awaitEnd"]
            /\ UNCHANGED resp
    /\ UNCHANGED <<certificateStore, request, locals, now, verifyResp, feVars>>

\* a continuation whose catch block logs the error and sends nothing
ResumeSwallowsError(r) ==
    /\ pc[r] = "awaitQR"
    /\ IF QrRejects(locals[r].verificationUrl)
       THEN /\ pc' = [pc EXCEPT ![r] = "done"]
            /\ UNCHANGED <<certificateStore, resp>>
       ELSE /\ certificateStore' =
                   StoreSet(certificateStore, locals[r].certificateId, RecordOf(locals[r], now))
            /\ IF DrawThrows(request[r].file)
               THEN /\ pc' = [pc EXCEPT ![r] = "done"]
                    /\ UNCHANGED resp
               ELSE /\ pc' = [pc EXCEPT ![r] = "awaitEnd"]
                    /\ UNCHANGED resp
    /\ UNCHANGED <<request, locals, now, verifyResp, feVars>>

\* lines 281-325: the continuation after the awaited QR promise settles
Resume(r) ==
    /\ pc[r] = "awaitQR"
    /\ IF QrRejects(locals[r].verificationUrl)
       THEN /\ Send(r, ServerError)
            /\ pc' = [pc EXCEPT ![r] = "done"]
            /\ UNCHANGED certificateStore
       ELSE /\ certificateStore' =
                   StoreSet(certificateStore, locals[r].certificateId, RecordOf(locals[r], now))
            /\ IF DrawThrows(request[r].file)
               THEN /\ Send(r, ServerError)
                    /\ pc' = [pc EXCEPT ![r] = "done"]
               ELSE /\ pc' = [pc EXCEPT ![r] = "awaitEnd"]
                    /\ UNCHANGED resp
    /\ UNCHANGED <<request, locals, now, verifyResp, feVars>>

\* lines 299-308: the PDF stream's 'end' listener
PdfEnd(r) ==
    /\ pc[r] = "awaitEnd"
    /\ Send(r, PdfResponse(locals[r].certificateId))
    /\ pc' = [pc EXCEPT ![r] = "done"]
    /\ UNCHANGED <<certificateStore, request, locals, now, verifyResp, feVars>>

\* a verification that remembers the identifiers it did not find
VerifyMemoising(id) ==
    /\ verifyResp' = [id |-> id, response |-> VerifyHandler(certificateStore, id)]
    /\ certificateStore' =
           IF StoreHas(certificateStore, id) THEN certificateStore
           ELSE StoreSet(certificateStore, id, [valid |-> FALSE])
    /\ UNCHANGED <<pc, request, locals, resp, now, feVars>>

\* GET /api/verify/:id, lines 329-341
Verify(id) ==
    /\ verifyResp' = [id |-> id, response |-> VerifyHandler(certificateStore, id)]
    /\ UNCHANGED <<certificateStore, pc, request, locals, resp, now, feVars>>

\* the wall clock read by new Date(): it runs through the day the server was
\* started on and into the midnight that ends it
Tick ==
    /\ now.day = ServerStart.day
    /\ now' = IF now.ms < MaxMs THEN [now EXCEPT !.ms = @ + 1] ELSE NextDay(now)
    /\ UNCHANGED <<certificateStore, pc, request, locals, resp, verifyResp, feVars>>

Next ==
    \/ \E r \in Reqs, name \in NameValues, certName \in CertNameValues,
          file \in Files, protocol \in Protocols, host \in Hosts :
          Receive(r, name, certName, file, protocol, host)
    \/ \E r \in Reqs : Resume(r)
    \/ \E r \in Reqs : PdfEnd(r)
    \/ \E id \in VerifyIds : Verify(id)
    \/ Tick

Spec == Init /\ [][Next]_vars

\* the event loop runs every continuation whose promise has settled and every
\* 'end' listener of a document that was ended
Fairness == \A r \in Reqs : WF_vars(Resume(r)) /\ WF_vars(PdfEnd(r))

FairSpec == Spec /\ Fairness

----------------------------------------------------------------------------
(* The page script, src/frontend/app.js. *)

\* the server's state, which no listener of the page touches
backVars == <<certificateStore, pc, request, locals, resp, now, verifyResp>>

\* applyMirrorMode, lines 15-17
applyMirrorMode == videoMirrored' = mirrorMode'

\* the user ticks or unticks the mirror box: the 'change' listener, line 19
MirrorChange ==
    /\ UNCHANGED backVars
    /\ mirrorMode' = ~mirrorMode
    /\ applyMirrorMode
    /\ UNCHANGED <<fullName, validUntil, captureDisabled, mediaStream, capturedBlob, cameraPending,
                   pendingBlobs, shots, photoPreview, statusText, sent, lastPost, inflight,
                   reading, download>>

\* the user edits the full-name input
TypeName(v) ==
    /\ UNCHANGED backVars
    /\ fullName # v
    /\ fullName' = v
    /\ UNCHANGED <<validUntil, mirrorMode, videoMirrored, captureDisabled, mediaStream, capturedBlob,
                   cameraPending, pendingBlobs, shots, photoPreview, statusText, sent,
                   lastPost, inflight,
                   reading, download>>

\* the user edits the valid-until input
SetValidUntil(v) ==
    /\ UNCHANGED backVars
    /\ validUntil # v
    /\ validUntil' = v
    /\ UNCHANGED <<fullName, mirrorMode, videoMirrored, captureDisabled,
                   mediaStream, capturedBlob, cameraPending, pendingBlobs, shots, photoPreview,
                   statusText, sent, lastPost, inflight,
                   reading, download>>

\* openCameraBtn click, lines 21-23: getUserMedia is called and awaited
OpenCameraClick ==
    /\ UNCHANGED backVars
    /\ cameraPending < MaxCameraPending
    /\ cameraPending' = cameraPending + 1
    /\ UNCHANGED <<fullName, validUntil, mirrorMode, videoMirrored, captureDisabled,
                   mediaStream, capturedBlob, pendingBlobs, shots, photoPreview, statusText, sent,
                   lastPost, inflight,
                   reading, download>>

\* lines 23-27: getUserMedia resolved
CameraGranted ==
    /\ UNCHANGED backVars
    /\ cameraPending > 0
    /\ cameraPending' = cameraPending - 1
    /\ mediaStream' = "stream"
    /\ captureDisabled' = FALSE
    /\ UNCHANGED mirrorMode
    /\ applyMirrorMode
    /\ statusText' = <<"Webcam is active. Capture a passport-style photo.">>
    /\ UNCHANGED <<fullName, validUntil, capturedBlob, pendingBlobs, shots, photoPreview, sent,
                   lastPost, inflight,
                   reading, download>>

\* lines 28-31: getUserMedia rejected; mediaStream keeps its value
CameraDenied ==
    /\ UNCHANGED backVars
    /\ cameraPending > 0
    /\ cameraPending' = cameraPending - 1
    /\ statusText' = <<"Unable to access webcam. Please check browser camera permissions.">>
    /\ UNCHANGED <<fullName, validUntil, mirrorMode, videoMirrored, captureDisabled,
                   mediaStream, capturedBlob, pendingBlobs, shots, photoPreview, sent, lastPost,
                   inflight,
                   reading, download>>

\* captureBtn click, lines 34-59: the frame is drawn (mirrored if the box is
\* ticked) and canvas.toBlob is left to call back
CaptureClick ==
    /\ UNCHANGED backVars
    /\ ~captureDisabled
    /\ IF mediaStream = NoStream
       THEN UNCHANGED <<shots, pendingBlobs>>
       ELSE /\ shots < MaxShots
            /\ shots' = shots + 1
            /\ pendingBlobs' =
                   Append(pendingBlobs, [shot |-> shots + 1, mirrored |-> mirrorMode])
    /\ UNCHANGED <<fullName, validUntil, mirrorMode, videoMirrored, captureDisabled,
                   mediaStream, capturedBlob, cameraPending, photoPreview, statusText, sent, lastPost,
                   inflight,
                   reading, download>>

\* lines 51-55: the toBlob callback runs with the encoded frame, or with null
\* when the frame could not be encoded (createObjectURL then throws)
ToBlobCallback(encoded) ==
    /\ UNCHANGED backVars
    /\ pendingBlobs # <<>>
    /\ pendingBlobs' = Tail(pendingBlobs)
    /\ IF encoded
       THEN /\ capturedBlob' = Head(pendingBlobs)
            /\ photoPreview' = Head(pendingBlobs)
            /\ statusText' = <<"Photo captured. You can now generate the certificate.">>
       ELSE /\ capturedBlob' = NullBlob
            /\ UNCHANGED <<photoPreview, statusText>>
    /\ UNCHANGED <<fullName, validUntil, mirrorMode, videoMirrored, captureDisabled,
                   mediaStream, cameraPending, shots, sent, lastPost, inflight,
                   reading, download>>

\* a submit listener without the photo check of lines 69-72
SubmitWithoutPhotoCheck ==
    /\ UNCHANGED backVars
    /\ IF Trim(fullName) = <<>>
       THEN /\ statusText' = <<"Please enter a full name.">>
            /\ UNCHANGED <<fullName, validUntil, mirrorMode, videoMirrored, captureDisabled,
                           mediaStream, capturedBlob, cameraPending, pendingBlobs, shots,
                           photoPreview,
                           sent, lastPost, inflight,
                   reading, download>>
       ELSE /\ sent < MaxPosts
            /\ sent' = sent + 1
            /\ lastPost' = [name |-> Trim(fullName), photo |-> capturedBlob,
                           validUntil |-> IF validUntil = "" THEN NoField ELSE validUntil]
            /\ inflight' = inflight + 1
            /\ statusText' = <<"Generating official credential PDF on server...">>
            /\ UNCHANGED <<fullName, validUntil, mirrorMode, videoMirrored, captureDisabled,
                           mediaStream, capturedBlob, cameraPending, pendingBlobs, shots,
                           photoPreview, reading, download>>

\* form submit, lines 61-87: the two checks, then the POST to /api/certificates
Submit ==
    /\ UNCHANGED backVars
    /\ IF Trim(fullName) = <<>>
       THEN /\ statusText' = <<"Please enter a full name.">>
            /\ UNCHANGED <<fullName, validUntil, mirrorMode, videoMirrored, captureDisabled,
                           mediaStream, capturedBlob, cameraPending, pendingBlobs, shots,
                           photoPreview,
                           sent, lastPost, inflight,
                   reading, download>>
       ELSE IF capturedBlob = NoBlob \/ capturedBlob = NullBlob
       THEN /\ statusText' = <<"Please capture a photo before submitting.">>
            /\ UNCHANGED <<fullName, validUntil, mirrorMode, videoMirrored, captureDisabled,
                           mediaStream, capturedBlob, cameraPending, pendingBlobs, shots,
                           photoPreview,
                           sent, lastPost, inflight,
                   reading, download>>
       ELSE /\ sent < MaxPosts
            /\ sent' = sent + 1
            /\ lastPost' = [name |-> Trim(fullName), photo |-> capturedBlob,
                           validUntil |-> IF validUntil = "" THEN NoField ELSE validUntil]
            /\ inflight' = inflight + 1
            /\ statusText' = <<"Generating official credential PDF on server...">>
            /\ UNCHANGED <<fullName, validUntil, mirrorMode, videoMirrored, captureDisabled,
                           mediaStream, capturedBlob, cameraPending, pendingBlobs, shots,
                           photoPreview, reading, download>>

\* lines 84-95: the awaited fetch resolves with a response; whatever its
\* status, the listener goes on to await the body (line 90 or line 95)
FetchSettles(answer) ==
    /\ UNCHANGED backVars
    /\ inflight > 0
    /\ inflight' = inflight - 1
    /\ reading' = [reading EXCEPT ![answer] = @ + 1]
    /\ UNCHANGED <<fullName, validUntil, mirrorMode, videoMirrored, captureDisabled,
                   mediaStream, capturedBlob, cameraPending, pendingBlobs, shots, photoPreview,
                   statusText, sent, lastPost, download>>

\* lines 84-87 and 105-107: the awaited fetch rejects and the catch reports it
FetchRejects(message) ==
    /\ UNCHANGED backVars
    /\ inflight > 0
    /\ inflight' = inflight - 1
    /\ statusText' = <<"Error: ", message>>
    /\ UNCHANGED <<fullName, validUntil, mirrorMode, videoMirrored, captureDisabled,
                   mediaStream, capturedBlob, cameraPending, pendingBlobs, shots, photoPreview, sent,
                   lastPost, reading, download>>

\* lines 89-107, after response.json() or response.blob() has settled: a body
\* that did not arrive or is not JSON rejects the await and is caught, the
\* error of a JSON body is thrown and caught, and the PDF is saved under the
\* name the input holds by then
BodyRead(answer, delivered) ==
    /\ UNCHANGED backVars
    /\ reading[answer] > 0
    /\ reading' = [reading EXCEPT ![answer] = @ - 1]
    /\ IF ~delivered
       THEN /\ statusText' = <<"Error: ", BodyLostError>>
            /\ UNCHANGED download
       ELSE IF ~answer.ok
       THEN /\ statusText' =
                   IF "text" \in DOMAIN answer
                   THEN <<"Error: ">> \o JsonSyntaxError(answer.text)
                   ELSE <<"Error: ",
                          IF answer.error = "" THEN "Certificate generation failed"
                          ELSE answer.error>>
            /\ UNCHANGED download
       ELSE /\ download' = DownloadName(fullName)
            /\ statusText' =
                   <<"Credential generated successfully. Certificate ID: ", answer.certId>>
    /\ UNCHANGED <<fullName, validUntil, mirrorMode, videoMirrored, captureDisabled,
                   mediaStream, capturedBlob, cameraPending, pendingBlobs, shots, photoPreview, sent,
                   lastPost, inflight>>

FrontInit == ServerStarted /\ \E mirror, disabled \in BOOLEAN : PageLoaded(mirror, disabled)

FrontNext ==
    \/ MirrorChange
    \/ \E v \in NameInputs : TypeName(v)
    \/ \E v \in ValidUntilInputs : SetValidUntil(v)
    \/ OpenCameraClick
    \/ CameraGranted
    \/ CameraDenied
    \/ CaptureClick
    \/ \E encoded \in BOOLEAN : ToBlobCallback(encoded)
    \/ Submit
    \/ \E answer \in FetchAnswers : FetchSettles(answer)
    \/ \E message \in FetchErrors : FetchRejects(message)
    \/ \E answer \in FetchAnswers, delivered \in BOOLEAN : BodyRead(answer, delivered)

FrontSpec == FrontInit /\ [][FrontNext]_vars

----------------------------------------------------------------------------
(* Vocabulary of the properties. *)

\* a field that is absent or holds white space only
IsBlank(v) == v = Undefined \/ (v # NonString /\ \A i \in 1..Len(v) : v[i] \in WhiteSpace)

\* a field that holds a string
IsText(v) == v # Undefined /\ v # NonString

\* a request the validation of lines 261-271 must reject
InvalidRequest(q) == IsBlank(q.name) \/ IsBlank(q.certificateName) \/ q.file = NoFile

ErrorMessages ==
    {"Learner name is required.", "Certificate name is required.", "Exam image is required."}

\* request r passed validation (its locals exist)
Accepted(r) == pc[r] \in {"awaitQR", "awaitEnd", "done"} /\ locals[r] # NoLocals

\* this step is r's handler running from its start to its first await or return
ReceiveStep(r) == pc[r] = "idle" /\ pc'[r] # "idle"

\* this step is r's continuation after the QR promise settled
ResumeStep(r) == pc[r] = "awaitQR" /\ pc'[r] # "awaitQR"

\* this step is r's continuation and the QR promise resolved, so line 284 runs
InsertStep(r) == ResumeStep(r) /\ locals[r].verificationUrl[3] # LongHost

\* this step is a verification request being answered
VerifyStep == verifyResp' # verifyResp

Succeeded(r) ==
    /\ pc[r] = "done"
    /\ Len(resp[r]) = 1
    /\ resp[r][1].status = 200
    /\ "xCertificateId" \in DOMAIN resp[r][1]

----------------------------------------------------------------------------
(* C1: a POST /api/certificates whose trimmed name is empty, whose trimmed *)
(* certificateName is empty or that carries no photo is answered 400 with  *)
(* a body {error: string}, no identifier is generated for it, and          *)
(* certificateStore is the same after the request as before.               *)
C1_ValidationRejects ==
    [][\A r \in Reqs :
          (ReceiveStep(r) /\ InvalidRequest(request'[r])) =>
              /\ pc'[r] = "done"
              /\ Len(resp'[r]) = 1
              /\ resp'[r][1].status = 400
              /\ DOMAIN resp'[r][1].body = {"error"}
              /\ resp'[r][1].body.error \in ErrorMessages
              /\ locals'[r] = NoLocals
              /\ certificateStore' = certificateStore]_vars

(* C2: GET /api/verify/:id answers valid:false with 404 exactly when the   *)
(* id is not a key of certificateStore, and valid:true with 200 and the    *)
(* stored record exactly when it is.                                       *)
C2_VerifyIffStored ==
    [][VerifyStep =>
          LET id  == verifyResp'.id
              res == verifyResp'.response
          IN  /\ (id \notin DOMAIN certificateStore) <=>
                     (res.valid = FALSE /\ res.status = 404)
              /\ (id \in DOMAIN certificateStore) <=>
                     /\ res.valid = TRUE
                     /\ res.status = 200
                     /\ "certificate" \in DOMAIN res
                     /\ res.certificate = certificateStore[id]]_vars

\* a stored identifier was verified and the answer carried its record
C2_Witness ==
    /\ verifyResp # NoVerify
    /\ verifyResp.id \in DOMAIN certificateStore
    /\ verifyResp.response.status = 200
    /\ verifyResp.response.certificate = certificateStore[verifyResp.id]

(* C3: once a record is in certificateStore under an identifier, every     *)
(* later state still has that identifier, mapped to an equal record.       *)
C3_WriteOnce ==
    [][\A k \in DOMAIN certificateStore :
          /\ k \in DOMAIN certificateStore'
          /\ certificateStore'[k] = certificateStore[k]]_vars

(* C4: when the identifier of an issuance is already a key of              *)
(* certificateStore, the insertion leaves the record under that key as it  *)
(* was.                                                                    *)
C4_NoSilentOverwrite ==
    [][\A r \in Reqs :
          (InsertStep(r) /\ locals[r].certificateId \in DOMAIN certificateStore) =>
              certificateStore'[locals[r].certificateId] =
                  certificateStore[locals[r].certificateId]]_vars

(* C5: an identifier that collides with a key of certificateStore is      *)
(* regenerated or the request fails with a 500: the handler never goes on  *)
(* past identifier generation towards a success response while holding an  *)
(* identifier that is already a key.                                       *)
C5_CollisionRetriedOrFatal ==
    [][\A r \in Reqs :
          ReceiveStep(r) =>
              \/ /\ pc'[r] = "done"
                 /\ Len(resp'[r]) = 1
                 /\ resp'[r][1].status \in {400, 500}
              \/ /\ pc'[r] = "awaitQR"
                 /\ locals'[r].certificateId \notin DOMAIN certificateStore]_vars

(* C6: any two successful issuances carry distinct identifiers, and each   *)
(* identifier verifies to the record of its own request.                   *)
C6_DistinctIdentifiers ==
    \A r1, r2 \in Reqs :
        (r1 # r2 /\ Succeeded(r1) /\ Succeeded(r2)) =>
            /\ resp[r1][1].xCertificateId # resp[r2][1].xCertificateId
            /\ \A r \in {r1, r2} :
                  LET res == VerifyHandler(certificateStore, resp[r][1].xCertificateId)
                  IN  /\ res.valid
                      /\ res.certificate.learnerName = locals[r].learnerName
                      /\ res.certificate.certificateName = locals[r].certificateName

(* C7: a request that supplies the fields name (non-empty) and photo (a    *)
(* valid image), as the README and the front end send them, is answered    *)
(* with the PDF and a non-empty X-Certificate-Id, and that identifier      *)
(* verifies as valid:true with learnerName equal to the submitted name.    *)
C7_NameAndPhotoSucceed ==
    \A r \in Reqs :
        (/\ pc[r] = "done"
         /\ IsText(request[r].name) /\ ~IsBlank(request[r].name)
         /\ request[r].certificateName = Undefined
         /\ request[r].file = "image"
         /\ request[r].host # LongHost) =>
            /\ Succeeded(r)
            /\ resp[r][1].xCertificateId # ""
            /\ LET res == VerifyHandler(certificateStore, resp[r][1].xCertificateId)
               IN  res.valid /\ res.certificate.learnerName = Trim(request[r].name)

(* C8: a lookup right after an insertion returns a record equal to the one *)
(* inserted, and a lookup of any identifier changes only when a record is  *)
(* inserted under that identifier, so it always returns the most recent    *)
(* insertion under its key.                                                *)
C8_RoundTrip ==
    [][/\ \A r \in Reqs :
             InsertStep(r) =>
                 /\ VerifyHandler(certificateStore', locals[r].certificateId) =
                        [status |-> 200, valid |-> TRUE, message |-> "Certificate is valid.",
                         certificate |-> RecordOf(locals[r], now)]
                 /\ \A id \in VerifyIds \ {locals[r].certificateId} :
                        VerifyHandler(certificateStore', id) =
                            VerifyHandler(certificateStore, id)
       /\ (\A r \in Reqs : ~InsertStep(r)) =>
              \A id \in VerifyIds :
                  VerifyHandler(certificateStore', id) = VerifyHandler(certificateStore, id)
       /\ VerifyStep =>
              verifyResp'.response = VerifyHandler(certificateStore', verifyResp'.id)]_vars

\* a second insertion under a key was looked up and returned the second record
C8_Witness ==
    \E r1, r2 \in Reqs :
        /\ r1 # r2
        /\ Accepted(r1) /\ Accepted(r2)
        /\ pc[r1] = "done" /\ pc[r2] = "done"
        /\ locals[r1].certificateId = locals[r2].certificateId
        /\ locals[r1].learnerName # locals[r2].learnerName
        /\ verifyResp # NoVerify
        /\ verifyResp.id = locals[r2].certificateId
        /\ verifyResp.response.valid
        /\ verifyResp.response.certificate.learnerName = locals[r2].learnerName
        /\ verifyResp.response.certificate = certificateStore[verifyResp.id]

(* C9: verifying an identifier that was never inserted is answered with    *)
(* the not-found outcome (valid:false, 404), never a 500, and verifying    *)
(* any identifier leaves certificateStore unchanged.                       *)
C9_VerifyIsReadOnly ==
    [][VerifyStep =>
          /\ certificateStore' = certificateStore
          /\ verifyResp'.response.status \in {200, 404}
          /\ (verifyResp'.id \notin DOMAIN certificateStore) =>
                 /\ verifyResp'.response.valid = FALSE
                 /\ verifyResp'.response.status = 404
                 /\ "certificate" \notin DOMAIN verifyResp'.response]_vars

\* the never-issued identifier was verified against a non-empty store
C9_Witness ==
    /\ verifyResp # NoVerify
    /\ verifyResp.id = NeverIssued
    /\ verifyResp.response.valid = FALSE
    /\ DOMAIN certificateStore # {}

(* C10: when rendering throws after the record was inserted, the request   *)
(* is answered 500 and the record stays in certificateStore, so its        *)
(* identifier verifies as valid:true.                                      *)
C10_RenderFailureKeepsRecord ==
    \A r \in Reqs :
        (/\ Accepted(r)
         /\ pc[r] = "done"
         /\ request[r].file = "garbage"
         /\ request[r].host # LongHost) =>
            /\ resp[r] = <<ServerError>>
            /\ locals[r].certificateId \in DOMAIN certificateStore
            /\ VerifyHandler(certificateStore, locals[r].certificateId).valid

\* a request with an undecodable upload has been answered 500
C10_Witness ==
    \E r \in Reqs :
        /\ Accepted(r)
        /\ pc[r] = "done"
        /\ request[r].file = "garbage"
        /\ request[r].host # LongHost
        /\ resp[r] = <<ServerError>>
        /\ certificateStore[locals[r].certificateId].learnerName = locals[r].learnerName

RecordFields ==
    {"certificateId", "learnerName", "certificateName", "issueDate", "expiryDate",
     "trainingPartner", "createdAt", "verificationUrl"}

\* record rec is exactly what request r inserts
WrittenBy(rec, r) ==
    /\ Accepted(r)
    /\ pc[r] \in {"awaitEnd", "done"}
    /\ DOMAIN rec = RecordFields
    /\ rec.certificateId = locals[r].certificateId
    /\ rec.learnerName = Trim(request[r].name)
    /\ rec.certificateName = locals[r].certificateName
    /\ rec.issueDate = locals[r].issueDate
    /\ rec.expiryDate = locals[r].expiryDate
    /\ rec.verificationUrl = locals[r].verificationUrl

(* C11: under every interleaving of issuance and verification requests, a  *)
(* verification sees not-found or a complete record, and every stored      *)
(* record holds the name, certificate name and identifier of one single    *)
(* request that has reached its insertion, never a mixture of two.         *)
C11_NoTornRecord ==
    /\ \A k \in DOMAIN certificateStore :
           \E r \in Reqs :
               WrittenBy(certificateStore[k], r) /\ locals[r].certificateId = k
    /\ verifyResp # NoVerify =>
           \/ /\ verifyResp.response.valid = FALSE
              /\ "certificate" \notin DOMAIN verifyResp.response
           \/ /\ verifyResp.response.valid = TRUE
              /\ \E r \in Reqs : WrittenBy(verifyResp.response.certificate, r)

\* two requests were in flight together, both have inserted under different
\* keys with different names, and a verification has read one of the records
C11_Witness ==
    /\ pc["r1"] = "awaitEnd" /\ pc["r2"] = "awaitEnd"
    /\ locals["r1"].certificateId # locals["r2"].certificateId
    /\ locals["r1"].learnerName # locals["r2"].learnerName
    /\ verifyResp # NoVerify
    /\ verifyResp.response.valid
    /\ verifyResp.response.certificate = certificateStore[locals["r1"].certificateId]

(* C12 as claimed: verifying an identifier obtained by replacing a single  *)
(* character of an issued identifier is reported as invalid (the issued    *)
(* identifiers carrying a signature that such a change breaks).            *)
C12_TamperDetected ==
    [][(VerifyStep /\ \E k \in DOMAIN certificateStore : OneCharApart(k, verifyResp'.id)) =>
          verifyResp'.response.valid = FALSE]_vars

(* C12 as amended: identifiers are plain uuidv4 values without a           *)
(* signature and validity is store membership alone, so an identifier one  *)
(* character away from an issued one is reported invalid exactly when it   *)
(* is not itself a key of certificateStore.                                *)
C12_TamperDetectedUnlessIssued ==
    [][(VerifyStep /\ \E k \in DOMAIN certificateStore : OneCharApart(k, verifyResp'.id)) =>
          /\ (verifyResp'.id \notin DOMAIN certificateStore) =>
                 (verifyResp'.response.valid = FALSE /\ verifyResp'.response.status = 404)
          /\ (verifyResp'.id \in DOMAIN certificateStore) =>
                 /\ verifyResp'.response.valid = TRUE
                 /\ verifyResp'.response.certificate.certificateId = verifyResp'.id]_vars

\* uuid-a was issued, uuid-b was not, and verifying uuid-b was answered invalid
C12_Witness ==
    /\ DOMAIN certificateStore = {"uuid-a"}
    /\ verifyResp # NoVerify
    /\ verifyResp.id = "uuid-b"
    /\ OneCharApart("uuid-a", verifyResp.id)
    /\ verifyResp.response.valid = FALSE

(* C13: an issuance validates, then generates the identifier, then inserts *)
(* the record, then renders, then responds: an identifier exists only for  *)
(* a request that passed validation, the record is in certificateStore     *)
(* once rendering is done, and whenever a success response carrying        *)
(* X-Certificate-Id has been sent that identifier verifies as valid:true.  *)
C13_InsertBeforeRespond ==
    \A r \in Reqs :
        /\ Accepted(r) => ~InvalidRequest(request[r])
        /\ pc[r] = "awaitEnd" =>
               /\ resp[r] = <<>>
               /\ locals[r].certificateId \in DOMAIN certificateStore
        /\ (resp[r] # <<>> /\ resp[r][1].status = 200) =>
               /\ pc[r] = "done"
               /\ resp[r][1].xCertificateId = locals[r].certificateId
               /\ VerifyHandler(certificateStore, resp[r][1].xCertificateId).valid

\* a client holds an identifier from a success response and has verified it
C13_Witness ==
    \E r \in Reqs :
        /\ Succeeded(r)
        /\ verifyResp # NoVerify
        /\ verifyResp.id = resp[r][1].xCertificateId
        /\ verifyResp.response.valid

(* C14: every record of certificateStore is well-formed for its key k:     *)
(* certificateId is k, verificationUrl ends with '/api/verify/' followed   *)
(* by k, learnerName is non-empty with no white space at either end, and   *)
(* trainingPartner is the deployment constant.                             *)
C14_RecordWellFormed ==
    \A k \in DOMAIN certificateStore :
        LET rec == certificateStore[k]
            url == rec.verificationUrl
        IN  /\ rec.certificateId = k
            /\ Len(url) >= 2
            /\ SubSeq(url, Len(url) - 1, Len(url)) = <<"/api/verify/", k>>
            /\ rec.learnerName # <<>>
            /\ rec.learnerName[1] \notin WhiteSpace
            /\ rec.learnerName[Len(rec.learnerName)] \notin WhiteSpace
            /\ rec.trainingPartner = "LearningCurve Institute"

\* a name sent with white space around it is stored trimmed
C14_Witness ==
    \E r \in Reqs :
        /\ Accepted(r)
        /\ request[r].name = <<"\n", "J", " ", "D", NBSP>>
        /\ locals[r].certificateId \in DOMAIN certificateStore
        /\ certificateStore[locals[r].certificateId].learnerName = <<"J", " ", "D">>

(* C15: when the awaited QRCode.toDataURL rejects, the request is answered *)
(* 500 and certificateStore is unchanged: no record exists for the         *)
(* identifier that was generated for that request.                         *)
C15_QrFailureStoresNothing ==
    [][\A r \in Reqs :
          (ResumeStep(r) /\ request[r].host = LongHost) =>
              /\ pc'[r] = "done"
              /\ resp'[r] = <<ServerError>>
              /\ certificateStore' = certificateStore
              /\ ~StoreHas(certificateStore', locals[r].certificateId)
              /\ VerifyHandler(certificateStore', locals[r].certificateId).valid = FALSE]_vars

(* C16: every issuance request eventually receives exactly one response,   *)
(* a 400 validation error, a 500 failure or the PDF with X-Certificate-Id; *)
(* on no path is a response sent twice or never sent.                      *)
C16_ExactlyOneResponse ==
    /\ [](\A r \in Reqs :
             /\ Len(resp[r]) <= 1
             /\ pc[r] = "done" <=> Len(resp[r]) = 1
             /\ Len(resp[r]) = 1 =>
                    \/ /\ resp[r][1].status = 400
                       /\ resp[r][1].body.error \in ErrorMessages
                    \/ resp[r][1] = ServerError
                    \/ /\ resp[r][1].status = 200
                       /\ resp[r][1].contentType = "application/pdf"
                       /\ resp[r][1].xCertificateId = locals[r].certificateId)
    /\ [][\A r \in Reqs : resp[r] # <<>> => resp'[r] = resp[r]]_vars
    /\ \A r \in Reqs : (pc[r] # "idle") ~> (pc[r] = "done" /\ Len(resp[r]) = 1)

\* one request was answered with the PDF and the other with a failure after
\* both had waited at the QR step
C16_Witness ==
    \E r1, r2 \in Reqs :
        /\ Succeeded(r1)
        /\ Accepted(r2)
        /\ pc[r2] = "done"
        /\ resp[r2] = <<ServerError>>

\* a picture that a toBlob callback has delivered
IsPhoto(b) == b # NoBlob /\ b # NullBlob

\* this step sends a POST to /api/certificates
PostStep == sent' # sent

\* a POST goes out only with a non-blank full name and a captured photo, and
\* it carries the trimmed name and that photo
PostNeedsNameAndPhoto ==
    PostStep =>
        /\ sent' = sent + 1
        /\ ~IsBlank(fullName)
        /\ IsPhoto(capturedBlob)
        /\ lastPost'.name = Trim(fullName)
        /\ lastPost'.photo = capturedBlob

\* while no camera stream has been opened, no step takes or delivers a picture
CaptureNeedsStream ==
    mediaStream = NoStream =>
        /\ UNCHANGED <<shots, pendingBlobs, capturedBlob, photoPreview>>
        /\ shots = 0 /\ pendingBlobs = <<>> /\ capturedBlob = NoBlob

(* C17 as claimed: in the front end a POST to /api/certificates is sent    *)
(* only when the trimmed full name is non-empty and a photo blob has been  *)
(* captured; a capture click before the camera stream was opened does      *)
(* nothing; and a submit that arrives while a capture's toBlob callback    *)
(* has not yet run sends no request.                                       *)
C17_PostOnlyAfterCapture ==
    [][/\ PostNeedsNameAndPhoto
       /\ CaptureNeedsStream
       /\ pendingBlobs # <<>> => ~PostStep]_vars

(* C17 as amended: a POST is sent only when the trimmed full name is       *)
(* non-empty and a photo blob has been captured, and it carries the photo  *)
(* of the last toBlob callback that has run; a capture click before the    *)
(* camera stream was opened does nothing; and a submit that arrives before *)
(* any toBlob callback has run sends no request.                           *)
C17_PostOnlyWithDeliveredPhoto ==
    [][/\ PostNeedsNameAndPhoto
       /\ CaptureNeedsStream
       /\ capturedBlob = NoBlob => ~PostStep]_vars

\* a POST went out with the first picture while the second capture's
\* callback was still pending, for a name typed with white space around it
C17_Witness ==
    /\ sent = 1
    /\ fullName = <<"\t", "J", " ", " ", "D", " ">>
    /\ lastPost.name = <<"J", " ", " ", "D">>
    /\ lastPost.photo = capturedBlob
    /\ capturedBlob = [shot |-> 1, mirrored |-> TRUE]
    /\ Len(pendingBlobs) = 1
    /\ pendingBlobs[1].shot = 2

====
